---- MODULE Spec2Model ----
(***************************************************************************)
(* Model of HighlightDirective (src/app/highlight.directive.ts): an        *)
(* attribute directive holding two string fields and recolouring its host  *)
(* element's background on mouseenter / mouseleave.                        *)
(*                                                                         *)
(* JavaScript values are modelled as tagged records so that undefined,     *)
(* null, the empty string and non-empty strings stay distinct and the      *)
(* `||` operator is computed from truthiness, as the language does.        *)
(***************************************************************************)
EXTENDS Naturals, Sequences, FiniteSets, TLC

\* ------------------------------------------------------------------ bounds
\* Number of distinct non-empty colour names bound or passed in.
MaxColors == 4

\* Pool the colour names are taken from; 'red' is the hard-coded default,
\* the others are the names the example's template and comment use.
ColorNames == <<"red", "blue", "yellow", "violet", "green", "cyan", "orange">>

\* ------------------------------------------------------------- JS values
Undefined == [tag |-> "undefined"]
Null == [tag |-> "null"]
Str(s) == [tag |-> "string", val |-> s]

\* Non-empty strings a template can bind.
Colors == {Str(ColorNames[i]) : i \in 1..MaxColors}

\* Everything a `string`-typed input can hold at run time.
Inputs == {Undefined, Null, Str("")} \cup Colors

\* JavaScript ToBoolean restricted to the values above: undefined, null and
\* the empty string are falsy, every other string is truthy.
TruthyEmptyOk(v) == v.tag = "string"

Truthy(v) == v.tag = "string" /\ v.val # ""

\* a || b
OrRight(a, b) == b

OrLeft(a, b) == a

Or(a, b) == IF Truthy(a) THEN a ELSE b

\* ------------------------------------------------------------------ state
VARIABLES
    highlightColor,   \* @Input('a2aHighlight') highlightColor
    _defaultColor,    \* private _defaultColor
    background,       \* el.nativeElement style 'backgroundColor' (Null = cleared)
    lastOp,           \* history: the member that ran last
    lastArg,          \* history: the argument it was given (Null if none)
    lastSet           \* history: last truthy value given to the defaultColor
                      \* setter, Undefined while there has been none

vars == <<highlightColor, _defaultColor, background, lastOp, lastArg, lastSet>>

\* A declared but uninitialised field reads undefined; _defaultColor = 'red'.
\* The host element's inline background is whatever the template gave it.
Init ==
    /\ highlightColor = Undefined
    /\ _defaultColor = Str("red")
    /\ background \in {Null} \cup Colors
    /\ lastOp = "constructor"
    /\ lastArg = Null
    /\ lastSet = Undefined

\* private highlight(color): renderer.setElementStyle(el, 'backgroundColor', color)
highlight(color) == background' = color

\* @Input('a2aHighlight') highlightColor: a binding assigns the field.
SetHighlightColor(v) ==
    /\ highlightColor' = v
    /\ lastOp' = "highlightColor"
    /\ lastArg' = v
    /\ UNCHANGED <<_defaultColor, background, lastSet>>

\* set defaultColor(colorName) { this._defaultColor = colorName || this._defaultColor; }
defaultColorNoGuard(colorName) ==
    /\ _defaultColor' = colorName
    /\ lastOp' = "defaultColor"
    /\ lastArg' = colorName
    /\ lastSet' = IF Truthy(colorName) THEN colorName ELSE lastSet
    /\ UNCHANGED <<highlightColor, background>>

defaultColorRepaints(colorName) ==
    /\ _defaultColor' = Or(colorName, _defaultColor)
    /\ highlight(Or(highlightColor, Or(colorName, _defaultColor)))
    /\ lastOp' = "defaultColor"
    /\ lastArg' = colorName
    /\ lastSet' = IF Truthy(colorName) THEN colorName ELSE lastSet
    /\ UNCHANGED <<highlightColor>>

defaultColor(colorName) ==
    /\ _defaultColor' = Or(colorName, _defaultColor)
    /\ lastOp' = "defaultColor"
    /\ lastArg' = colorName
    /\ lastSet' = IF Truthy(colorName) THEN colorName ELSE lastSet
    /\ UNCHANGED <<highlightColor, background>>

\* onMouseEnter() { this.highlight(this.highlightColor || this._defaultColor); }
onMouseEnterConsumes ==
    /\ highlight(Or(highlightColor, _defaultColor))
    /\ highlightColor' = Undefined
    /\ lastOp' = "onMouseEnter"
    /\ lastArg' = Null
    /\ UNCHANGED <<_defaultColor, lastSet>>

onMouseEnter ==
    /\ highlight(Or(highlightColor, _defaultColor))
    /\ lastOp' = "onMouseEnter"
    /\ lastArg' = Null
    /\ UNCHANGED <<highlightColor, _defaultColor, lastSet>>

\* onMouseLeave() { this.highlight(null); }
onMouseLeaveKeeps ==
    /\ lastOp' = "onMouseLeave"
    /\ lastArg' = Null
    /\ UNCHANGED <<highlightColor, _defaultColor, background, lastSet>>

onMouseLeave ==
    /\ highlight(Null)
    /\ lastOp' = "onMouseLeave"
    /\ lastArg' = Null
    /\ UNCHANGED <<highlightColor, _defaultColor, lastSet>>

Next ==
    \/ \E v \in Inputs : SetHighlightColor(v)
    \/ \E c \in Inputs : defaultColor(c)
    \/ onMouseEnter
    \/ onMouseLeave

Spec == Init /\ [][Next]_vars

\* ---------------------------------------------------------------- typing
TypeOK ==
    /\ highlightColor \in Inputs
    /\ _defaultColor \in Inputs
    /\ background \in Inputs
    /\ lastOp \in {"constructor", "highlightColor", "defaultColor",
                   "onMouseEnter", "onMouseLeave"}
    /\ lastArg \in Inputs
    /\ lastSet \in {Undefined} \cup Colors

\* The colour a mouseenter would paint in the current state.
Selected == Or(highlightColor, _defaultColor)

\* ----------------------------------------------------------------- claims

\* C1: for every non-empty highlightColor, whatever _defaultColor and the
\* background were, a mouseenter step leaves the background equal to
\* highlightColor.
C1_EnterUsesHighlightColor ==
    [][(lastOp' = "onMouseEnter" /\ Truthy(highlightColor))
          => background' = highlightColor]_vars

C1_Witness ==
    /\ lastOp = "onMouseEnter"
    /\ Truthy(highlightColor)
    /\ background = highlightColor
    /\ highlightColor # _defaultColor

\* C2: whenever highlightColor is unset, a mouseenter step leaves the
\* background equal to the value _defaultColor holds when the step is taken,
\* after any history of setter calls and mouse events.
C2_EnterUsesDefaultWhenUnset ==
    [][(lastOp' = "onMouseEnter" /\ highlightColor = Undefined)
          => background' = _defaultColor]_vars

C2_Witness ==
    /\ lastOp = "onMouseEnter"
    /\ highlightColor = Undefined
    /\ background = _defaultColor
    /\ _defaultColor = Str("violet")

\* C3: a mouseleave step always leaves the background cleared, whatever the
\* background, highlightColor and _defaultColor were before it, and whether
\* or not a mouseenter preceded it.
C3_LeaveClears ==
    [][lastOp' = "onMouseLeave" => background' = Null]_vars

C3_Witness ==
    /\ lastOp = "onMouseLeave"
    /\ background = Null
    /\ Truthy(highlightColor)
    /\ _defaultColor # Str("red")

\* C4: a defaultColor setter call with an empty or absent argument leaves
\* _defaultColor equal to its value before the call.
C4_FalsySetterKeepsDefault ==
    [][(lastOp' = "defaultColor" /\ ~Truthy(lastArg'))
          => _defaultColor' = _defaultColor]_vars

C4_Witness ==
    /\ lastOp = "defaultColor"
    /\ lastArg = Str("")
    /\ _defaultColor = Str("blue")

\* C5: in every reachable state _defaultColor is a non-empty string.
C5_DefaultNeverEmpty ==
    /\ _defaultColor.tag = "string"
    /\ _defaultColor.val # ""

C5_Witness ==
    /\ lastOp = "defaultColor"
    /\ lastArg \in {Undefined, Null, Str("")}
    /\ lastSet # Undefined
    /\ Truthy(_defaultColor)

\* C6: once the setter has been called with a non-empty value c, a following
\* mouseenter with highlightColor unset paints c, c being the latest such
\* value, whatever the default was before.
C6_SetterOverridesDefault ==
    (lastOp = "onMouseEnter" /\ highlightColor = Undefined /\ lastSet # Undefined)
        => background = lastSet

C6_Witness ==
    /\ lastOp = "onMouseEnter"
    /\ highlightColor = Undefined
    /\ lastSet = Str("blue")
    /\ background = Str("blue")

\* C7: while the setter has never been called with a non-empty value,
\* _defaultColor is 'red' and a mouseenter with highlightColor unset paints
\* 'red', also after setter calls with empty or absent arguments.
C7_DefaultIsRed ==
    lastSet = Undefined =>
        /\ _defaultColor = Str("red")
        /\ (lastOp = "onMouseEnter" /\ highlightColor = Undefined)
               => background = Str("red")

C7_Witness ==
    /\ lastSet = Undefined
    /\ lastOp = "onMouseEnter"
    /\ highlightColor = Undefined
    /\ background = Str("red")

\* C8: mouseenter and mouseleave steps leave highlightColor and
\* _defaultColor unchanged; they modify only the background.
C8_HandlersKeepFields ==
    [][(lastOp' \in {"onMouseEnter", "onMouseLeave"})
          => (highlightColor' = highlightColor /\ _defaultColor' = _defaultColor)]_vars

C8_Witness ==
    /\ lastOp = "onMouseEnter"
    /\ Truthy(highlightColor)
    /\ _defaultColor # Str("red")
    /\ background = highlightColor

\* C9: a mouseenter with highlightColor the empty string paints the current
\* _defaultColor, and after any mouseenter the background is a non-empty
\* string.
C9_EmptyHighlightFallsBack ==
    lastOp = "onMouseEnter" =>
        /\ Truthy(background)
        /\ (highlightColor = Str("") => background = _defaultColor)

C9_Witness ==
    /\ lastOp = "onMouseEnter"
    /\ highlightColor = Str("")
    /\ background = _defaultColor
    /\ _defaultColor # Str("red")

\* C10: a defaultColor setter call or a highlightColor assignment never
\* changes the background, so the background shown may differ from the
\* colour currently selected.
C10_InputsKeepBackground ==
    [][(lastOp' \in {"defaultColor", "highlightColor"})
          => background' = background]_vars

C10_Witness ==
    /\ lastOp \in {"defaultColor", "highlightColor"}
    /\ Truthy(background)
    /\ background # Selected

====
